---- MODULE Spec2Model ----
(***************************************************************************)
(* A model of repo_parse/parser/example/example.go: the package-level      *)
(* functions and methods (greet, swap, Person.greet, Person.setName,       *)
(* adder) as operators, and main as a state machine with one action per    *)
(* statement, interleaved with the goroutine main launches.                *)
(*                                                                         *)
(* The model follows the run-time meaning of each statement.  A statement  *)
(* the type checker rejects (lines 99, 100 and 104) has no run-time value: *)
(* it contributes the marker Rejected in place of one.                     *)
(***************************************************************************)
EXTENDS Integers, Sequences, FiniteSets, TLC

VARIABLES
    pc,         \* main's position ("L<line>"), or the position of a function-level run ("h_...")
    gpc,        \* the goroutine's position: "none", "L111", "L110_defer", "exited"
    out,        \* the console: the sequence of lines printed so far
    name,       \* package variable name (line 15)
    localName,  \* main's localName (line 81)
    ret,        \* the string last returned by greet / Person.greet
    a, b,       \* main's a, b (line 87)
    p,          \* main's p (line 91)
    number,     \* main's number (line 99)
    r,          \* main's r (line 103)
    wg,         \* the WaitGroup's counter (line 107)
    heap,       \* the sum variables captured by closures, one cell per adder() call
    pos, neg,   \* main's closures (line 116): the cell each one captured, 0 = nil
    i,          \* the loop variable (line 117)
    frame,      \* the closure invocation in progress: captured cell, argument, destination
    rpos, rneg, \* the values returned by pos(i) and neg(-2*i) (line 118)
    swapIn,     \* history: the arguments of the last swap call
    p0,         \* history: p as its composite literal built it
    lastName,   \* history: the Name p was built with, then the argument of the last setName
    retFor,     \* history: <<lastName>> as it was at the last Person.greet call, <<>> before any
    calls       \* history: per cell, the arguments of the calls made on its closure

vars == <<pc, gpc, out, name, localName, ret, a, b, p, number, r, wg, heap,
          pos, neg, i, frame, rpos, rneg, swapIn, p0, lastName, retFor, calls>>

----------------------------------------------------------------------------
(* Bounds of the function-level runs. *)

\* swap is tried on every pair of -MaxSwapArg..MaxSwapArg and the extreme ints
MaxSwapArg == 4
\* function-level closure calls take arguments in -1..MaxArg and the extreme ints
MaxArg == 3
\* function-level closure calls made in one run, over both closures
MaxCalls == 4
\* Person literals are tried with ages 0..MaxAge besides 30
MaxAge == 1

----------------------------------------------------------------------------
(* Go's int.  Its width is 32 or 64 bits, the build's choice; the model    *)
(* takes 32, the widest whose values the model checker's integers hold.    *)

MaxInt == 2147483647
MinInt == -MaxInt - 1

\* x + y on int: two's complement wrap-around, computed without leaving the int range
IntAdd(x, y) ==
    IF y >= 0
    THEN IF x > MaxInt - y THEN ((x - MaxInt) - 1) + ((y - MaxInt) - 1) ELSE x + y
    ELSE IF x < MinInt - y THEN (x - MinInt) + (y - MinInt) ELSE x + y

----------------------------------------------------------------------------
(* Types (lines 19-32) and what the type checker accepts. *)

Rejected == "rejected"

\* the type each declared type is declared as; a predeclared type or a struct literal is its own
TypeDecl ==
    [MyInt |-> "Address", Address |-> "struct", Person |-> "struct",
     int |-> "int", string |-> "string", struct |-> "struct"]

RECURSIVE Underlying(_)
Underlying(t) == IF TypeDecl[t] = t THEN t ELSE Underlying(TypeDecl[t])

\* an untyped integer constant is assignable to T iff T's underlying type is an integer type
IntConstAssignable(T) == Underlying(T) = "int"

\* a value of type T converts to int iff T's underlying type is numeric
ConvertibleToInt(T) == Underlying(T) = "int"

\* the methods of *Person (lines 60-67) and of io.Reader
PersonMethods == {"greet", "setName"}
ReaderMethods == {"Read"}
Implements(methods, iface) == iface \subseteq methods

ZeroAddress == [City |-> "", State |-> ""]
ZeroPerson == [Name |-> "", Age |-> 0, Address |-> ZeroAddress]

----------------------------------------------------------------------------
(* fmt.Println: the operands' default formats, separated by spaces. *)

Println1(s) == s
Println2(x, y) == ToString(x) \o " " \o ToString(y)

----------------------------------------------------------------------------
(* The functions and methods (lines 45-76). *)

greet(n) == "Hello, " \o n

swap_unswapped(x, y) == <<x, y>>
swap(x, y) == <<y, x>>

Person_greet(q) == "Hello, " \o q.Name

Person_setName_overwrite(q, n) == [ZeroPerson EXCEPT !.Name = n]
Person_setName(q, n) == [q EXCEPT !.Name = n]

\* adder(): a fresh sum := 0 and the closure that captured it
adder_shared(h) ==
    IF h = <<>> THEN [heap |-> <<0>>, fn |-> 1] ELSE [heap |-> h, fn |-> 1]
adder(h) == [heap |-> Append(h, 0), fn |-> Len(h) + 1]

\* the closure's body: sum += x (line 73), return sum (line 74)
ClosureAdd_assign(h, c, x) == [h EXCEPT ![c] = x]
ClosureAdd(h, c, x) == [h EXCEPT ![c] = IntAdd(@, x)]
ClosureResult(h, c) == h[c]

\* sync.WaitGroup: Add(delta), Done() = Add(-1), and Wait()'s test
WaitGroupAdd_double(w, d) == w + 2 * d
WaitGroupAdd(w, d) == w + d
WaitGroupDone_lost(w) == w
WaitGroupDone(w) == WaitGroupAdd(w, -1)
WaitReady_always(w) == TRUE
WaitReady(w) == w = 0

NoFrame == [c |-> 0, x |-> 0, dst |-> "none"]

----------------------------------------------------------------------------
\* every variable but pc before main's first statement
Fresh ==
    /\ gpc = "none"
    /\ out = <<>>
    /\ name = "Go"
    /\ localName = ""
    /\ ret = ""
    /\ a = 0 /\ b = 0
    /\ p = ZeroPerson
    /\ number = [valid |-> FALSE, v |-> 0]
    /\ r = "nil"
    /\ wg = 0
    /\ heap = <<>>
    /\ pos = 0 /\ neg = 0
    /\ i = 0
    /\ frame = NoFrame
    /\ rpos = 0 /\ rneg = 0
    /\ swapIn = <<>>
    /\ p0 = ZeroPerson
    /\ lastName = ""
    /\ retFor = <<>>
    /\ calls = <<>>

Init == pc = "L81" /\ Fresh

----------------------------------------------------------------------------
(* main (lines 79-120), one action per statement. *)

LoopCount == 10

\* line 81: var localName string = "Local Go"
DeclLocalName ==
    /\ pc = "L81"
    /\ localName' = "Local Go"
    /\ pc' = "L84"
    /\ UNCHANGED <<gpc, out, name, ret, a, b, p, number, r, wg, heap, pos, neg, i,
                   frame, rpos, rneg, swapIn, p0, lastName, retFor, calls>>

\* line 84: the operand greet(name)
EvalGreet ==
    /\ pc = "L84"
    /\ ret' = greet(name)
    /\ pc' = "L84_print"
    /\ UNCHANGED <<gpc, out, name, localName, a, b, p, number, r, wg, heap, pos, neg, i,
                   frame, rpos, rneg, swapIn, p0, lastName, retFor, calls>>

\* lines 84, 92, 96: fmt.Println of the string just returned
PrintRet ==
    /\ pc \in {"L84_print", "L92_print", "L96_print"}
    /\ out' = Append(out, Println1(ret))
    /\ pc' = CASE pc = "L84_print" -> "L87"
               [] pc = "L92_print" -> "L95"
               [] pc = "L96_print" -> "L99"
    /\ UNCHANGED <<gpc, name, localName, ret, a, b, p, number, r, wg, heap, pos, neg, i,
                   frame, rpos, rneg, swapIn, p0, lastName, retFor, calls>>

\* line 87: a, b := swap(1, 2)
CallSwap ==
    /\ pc = "L87"
    /\ a' = swap(1, 2)[1]
    /\ b' = swap(1, 2)[2]
    /\ swapIn' = <<1, 2>>
    /\ pc' = "L88"
    /\ UNCHANGED <<gpc, out, name, localName, ret, p, number, r, wg, heap, pos, neg, i,
                   frame, rpos, rneg, p0, lastName, retFor, calls>>

\* line 88: fmt.Println(a, b)
PrintSwap ==
    /\ pc = "L88"
    /\ out' = Append(out, Println2(a, b))
    /\ pc' = "L91"
    /\ UNCHANGED <<gpc, name, localName, ret, a, b, p, number, r, wg, heap, pos, neg, i,
                   frame, rpos, rneg, swapIn, p0, lastName, retFor, calls>>

\* line 91: p := Person{Name: "Alice", Age: 30, Address: Address{...}}
InitPerson ==
    /\ pc = "L91"
    /\ p' = [Name |-> "Alice", Age |-> 30,
             Address |-> [City |-> "Wonderland", State |-> "Fiction"]]
    /\ p0' = p'
    /\ lastName' = "Alice"
    /\ pc' = "L92"
    /\ UNCHANGED <<gpc, out, name, localName, ret, a, b, number, r, wg, heap, pos, neg, i,
                   frame, rpos, rneg, swapIn, retFor, calls>>

\* lines 92, 96: the operand p.greet(); the value receiver is a copy, p stays as it is
EvalPersonGreet ==
    /\ pc \in {"L92", "L96"}
    /\ ret' = Person_greet(p)
    /\ retFor' = <<lastName>>
    /\ pc' = IF pc = "L92" THEN "L92_print" ELSE "L96_print"
    /\ UNCHANGED <<gpc, out, name, localName, a, b, p, number, r, wg, heap, pos, neg, i,
                   frame, rpos, rneg, swapIn, p0, lastName, calls>>

\* line 95: p.setName("Bob"), the receiver is &p
SetNameBob ==
    /\ pc = "L95"
    /\ p' = Person_setName(p, "Bob")
    /\ lastName' = "Bob"
    /\ pc' = "L96"
    /\ UNCHANGED <<gpc, out, name, localName, ret, a, b, number, r, wg, heap, pos, neg, i,
                   frame, rpos, rneg, swapIn, p0, retFor, calls>>

\* line 99: var number MyInt = 42
DeclNumber ==
    /\ pc = "L99"
    /\ number' = IF IntConstAssignable("MyInt")
                 THEN [valid |-> TRUE, v |-> 42]
                 ELSE [valid |-> FALSE, v |-> 0]
    /\ pc' = "L100"
    /\ UNCHANGED <<gpc, out, name, localName, ret, a, b, p, r, wg, heap, pos, neg, i,
                   frame, rpos, rneg, swapIn, p0, lastName, retFor, calls>>

\* line 100: fmt.Println(int(number))
PrintNumber ==
    /\ pc = "L100"
    /\ out' = Append(out, IF number.valid /\ ConvertibleToInt("MyInt")
                          THEN Println1(ToString(number.v))
                          ELSE Rejected)
    /\ pc' = "L103"
    /\ UNCHANGED <<gpc, name, localName, ret, a, b, p, number, r, wg, heap, pos, neg, i,
                   frame, rpos, rneg, swapIn, p0, lastName, retFor, calls>>

\* line 103: var r io.Reader
DeclReader ==
    /\ pc = "L103"
    /\ r' = "nil"
    /\ pc' = "L104"
    /\ UNCHANGED <<gpc, out, name, localName, ret, a, b, p, number, wg, heap, pos, neg, i,
                   frame, rpos, rneg, swapIn, p0, lastName, retFor, calls>>

\* line 104: r = &p
AssignReader ==
    /\ pc = "L104"
    /\ r' = IF Implements(PersonMethods, ReaderMethods) THEN "&p" ELSE Rejected
    /\ pc' = "L107"
    /\ UNCHANGED <<gpc, out, name, localName, ret, a, b, p, number, wg, heap, pos, neg, i,
                   frame, rpos, rneg, swapIn, p0, lastName, retFor, calls>>

\* line 107: var wg sync.WaitGroup
DeclWaitGroup ==
    /\ pc = "L107"
    /\ wg' = 0
    /\ pc' = "L108"
    /\ UNCHANGED <<gpc, out, name, localName, ret, a, b, p, number, r, heap, pos, neg, i,
                   frame, rpos, rneg, swapIn, p0, lastName, retFor, calls>>

\* line 108: wg.Add(1)
WgAdd ==
    /\ pc = "L108"
    /\ wg' = WaitGroupAdd(wg, 1)
    /\ pc' = "L109"
    /\ UNCHANGED <<gpc, out, name, localName, ret, a, b, p, number, r, heap, pos, neg, i,
                   frame, rpos, rneg, swapIn, p0, lastName, retFor, calls>>

\* line 109: go func() {...}(): the goroutine becomes runnable at its first statement
GoStmt ==
    /\ pc = "L109"
    /\ gpc' = "L111"
    /\ pc' = "L113"
    /\ UNCHANGED <<out, name, localName, ret, a, b, p, number, r, wg, heap, pos, neg, i,
                   frame, rpos, rneg, swapIn, p0, lastName, retFor, calls>>

\* line 113: wg.Wait() is called: it returns at once on a zero counter, else main parks
WgWaitCall_nonblocking ==
    /\ pc = "L113"
    /\ pc' = "L116"
    /\ UNCHANGED <<gpc, out, name, localName, ret, a, b, p, number, r, wg, heap, pos, neg,
                   i, frame, rpos, rneg, swapIn, p0, lastName, retFor, calls>>
WgWaitCall ==
    /\ pc = "L113"
    /\ pc' = IF WaitReady(wg) THEN "L116" ELSE "L113_parked"
    /\ UNCHANGED <<gpc, out, name, localName, ret, a, b, p, number, r, wg, heap, pos, neg,
                   i, frame, rpos, rneg, swapIn, p0, lastName, retFor, calls>>

\* line 113: the parked wg.Wait() returns once the counter is zero
WgWaitWake ==
    /\ pc = "L113_parked"
    /\ WaitReady(wg)
    /\ pc' = "L116"
    /\ UNCHANGED <<gpc, out, name, localName, ret, a, b, p, number, r, wg, heap, pos, neg,
                   i, frame, rpos, rneg, swapIn, p0, lastName, retFor, calls>>

\* line 111, in the goroutine: fmt.Println("Inside goroutine")
GoroutinePrintln ==
    /\ gpc = "L111"
    /\ out' = Append(out, Println1("Inside goroutine"))
    /\ gpc' = "L110_defer"
    /\ UNCHANGED <<pc, name, localName, ret, a, b, p, number, r, wg, heap, pos, neg, i,
                   frame, rpos, rneg, swapIn, p0, lastName, retFor, calls>>

\* line 110, in the goroutine: the deferred wg.Done() runs as the function returns
GoroutineDone ==
    /\ gpc = "L110_defer"
    /\ wg' = WaitGroupDone(wg)
    /\ gpc' = "exited"
    /\ UNCHANGED <<pc, out, name, localName, ret, a, b, p, number, r, heap, pos, neg, i,
                   frame, rpos, rneg, swapIn, p0, lastName, retFor, calls>>

\* line 116: pos, neg := adder(), adder()
MakeClosures ==
    /\ pc \in {"L116", "h_idle"}
    /\ LET c1 == adder(heap)
           c2 == adder(c1.heap)
       IN  /\ heap' = c2.heap
           /\ pos' = c1.fn
           /\ neg' = c2.fn
           /\ calls' = [k \in 1..Len(c2.heap) |-> <<>>]
    /\ pc' = IF pc = "L116" THEN "L117_init" ELSE "h_adder"
    /\ UNCHANGED <<gpc, out, name, localName, ret, a, b, p, number, r, wg, i,
                   frame, rpos, rneg, swapIn, p0, lastName, retFor>>

\* line 117: i := 0
LoopInit ==
    /\ pc = "L117_init"
    /\ i' = 0
    /\ pc' = "L117_cond"
    /\ UNCHANGED <<gpc, out, name, localName, ret, a, b, p, number, r, wg, heap, pos, neg,
                   frame, rpos, rneg, swapIn, p0, lastName, retFor, calls>>

\* line 117: i < 10; when false the loop ends and main returns
LoopCond ==
    /\ pc = "L117_cond"
    /\ pc' = IF i < LoopCount THEN "L118_pos" ELSE "done"
    /\ UNCHANGED <<gpc, out, name, localName, ret, a, b, p, number, r, wg, heap, pos, neg,
                   i, frame, rpos, rneg, swapIn, p0, lastName, retFor, calls>>

\* line 118: the call pos(i)
CallPos ==
    /\ pc = "L118_pos"
    /\ frame' = [c |-> pos, x |-> i, dst |-> "pos"]
    /\ pc' = "L73"
    /\ UNCHANGED <<gpc, out, name, localName, ret, a, b, p, number, r, wg, heap, pos, neg,
                   i, rpos, rneg, swapIn, p0, lastName, retFor, calls>>

\* line 118: the call neg(-2*i)
CallNeg ==
    /\ pc = "L118_neg"
    /\ frame' = [c |-> neg, x |-> -2 * i, dst |-> "neg"]
    /\ pc' = "L73"
    /\ UNCHANGED <<gpc, out, name, localName, ret, a, b, p, number, r, wg, heap, pos, neg,
                   i, rpos, rneg, swapIn, p0, lastName, retFor, calls>>

\* line 73, in the closure: sum += x
ClosureBodyAdd ==
    /\ pc = "L73"
    /\ heap' = ClosureAdd(heap, frame.c, frame.x)
    /\ calls' = [calls EXCEPT ![frame.c] = Append(@, frame.x)]
    /\ pc' = "L74"
    /\ UNCHANGED <<gpc, out, name, localName, ret, a, b, p, number, r, wg, pos, neg,
                   i, frame, rpos, rneg, swapIn, p0, lastName, retFor>>

\* line 74, in the closure: return sum, to the operand of line 118 that made the call
ClosureBodyReturn ==
    /\ pc = "L74"
    /\ IF frame.dst = "pos"
       THEN /\ rpos' = ClosureResult(heap, frame.c)
            /\ pc' = "L118_neg"
            /\ UNCHANGED rneg
       ELSE /\ rneg' = ClosureResult(heap, frame.c)
            /\ pc' = "L118_print"
            /\ UNCHANGED rpos
    /\ UNCHANGED <<gpc, out, name, localName, ret, a, b, p, number, r, wg, heap, pos, neg,
                   i, frame, swapIn, p0, lastName, retFor, calls>>

\* line 118: fmt.Println(pos(i), neg(-2*i)), both operands evaluated
PrintLoop ==
    /\ pc = "L118_print"
    /\ out' = Append(out, Println2(rpos, rneg))
    /\ pc' = "L117_post"
    /\ UNCHANGED <<gpc, name, localName, ret, a, b, p, number, r, wg, heap, pos, neg,
                   i, frame, rpos, rneg, swapIn, p0, lastName, retFor, calls>>

\* line 117: i++
LoopPost ==
    /\ pc = "L117_post"
    /\ i' = IntAdd(i, 1)
    /\ pc' = "L117_cond"
    /\ UNCHANGED <<gpc, out, name, localName, ret, a, b, p, number, r, wg, heap, pos, neg,
                   frame, rpos, rneg, swapIn, p0, lastName, retFor, calls>>

MainNext ==
    \/ DeclLocalName \/ EvalGreet \/ PrintRet \/ CallSwap \/ PrintSwap
    \/ InitPerson \/ EvalPersonGreet \/ SetNameBob \/ DeclNumber \/ PrintNumber
    \/ DeclReader \/ AssignReader \/ DeclWaitGroup \/ WgAdd \/ GoStmt
    \/ WgWaitCall \/ WgWaitWake \/ MakeClosures \/ LoopInit \/ LoopCond
    \/ CallPos \/ CallNeg \/ ClosureBodyAdd \/ ClosureBodyReturn
    \/ PrintLoop \/ LoopPost

GoroutineNext == GoroutinePrintln \/ GoroutineDone

Next == MainNext \/ GoroutineNext

Spec == Init /\ [][Next]_vars

\* the scheduler runs every runnable goroutine: main and the launched one
FairSpec == Spec /\ WF_vars(MainNext) /\ WF_vars(GoroutineNext)

----------------------------------------------------------------------------
(* Function-level runs: the functions and methods called as any caller may *)
(* call them, on arguments drawn from bounded sets.  Such a run starts at  *)
(* "h_idle" with main's variables fresh; FnSpec holds main's run as well.  *)

Extremes == {MinInt, MaxInt}
SwapArgs == (-MaxSwapArg..MaxSwapArg) \cup Extremes
CallArgs == (-1..MaxArg) \cup Extremes
Names == {"", "Alice", "Bob"}
Ages == (0..MaxAge) \cup {30}

\* a, b := swap(x, y)
HSwap ==
    /\ pc = "h_idle"
    /\ \E x \in SwapArgs, y \in SwapArgs :
          /\ a' = swap(x, y)[1]
          /\ b' = swap(x, y)[2]
          /\ swapIn' = <<x, y>>
    /\ pc' = "h_swapped"
    /\ UNCHANGED <<gpc, out, name, localName, ret, p, number, r, wg, heap, pos, neg, i,
                   frame, rpos, rneg, p0, lastName, retFor, calls>>

\* p := Person{Name: n, Age: g, Address: Address{...}}
HNewPerson ==
    /\ pc = "h_idle"
    /\ \E n \in Names, g \in Ages :
          /\ p' = [Name |-> n, Age |-> g,
                   Address |-> [City |-> "Wonderland", State |-> "Fiction"]]
          /\ lastName' = n
    /\ p0' = p'
    /\ pc' = "h_person"
    /\ UNCHANGED <<gpc, out, name, localName, ret, a, b, number, r, wg, heap, pos, neg, i,
                   frame, rpos, rneg, swapIn, retFor, calls>>

\* p.setName(n)
HSetName ==
    /\ pc = "h_person"
    /\ \E n \in Names :
          /\ p' = Person_setName(p, n)
          /\ lastName' = n
    /\ UNCHANGED <<pc, gpc, out, name, localName, ret, a, b, number, r, wg, heap, pos, neg,
                   i, frame, rpos, rneg, swapIn, p0, retFor, calls>>

\* p.greet()
HGreet ==
    /\ pc = "h_person"
    /\ ret' = Person_greet(p)
    /\ retFor' = <<lastName>>
    /\ UNCHANGED <<pc, gpc, out, name, localName, a, b, p, number, r, wg, heap, pos, neg,
                   i, frame, rpos, rneg, swapIn, p0, lastName, calls>>

\* pos(x) or neg(x): the closure's body (lines 73-74) run to its return
HCall ==
    /\ pc = "h_adder"
    /\ Len(calls[pos]) + Len(calls[neg]) < MaxCalls
    /\ \E dst \in {"pos", "neg"}, x \in CallArgs :
          LET c == IF dst = "pos" THEN pos ELSE neg
              h == ClosureAdd(heap, c, x)
          IN  /\ frame' = [c |-> c, x |-> x, dst |-> dst]
              /\ heap' = h
              /\ calls' = [calls EXCEPT ![c] = Append(@, x)]
              /\ IF dst = "pos"
                 THEN rpos' = ClosureResult(h, c) /\ UNCHANGED rneg
                 ELSE rneg' = ClosureResult(h, c) /\ UNCHANGED rpos
    /\ UNCHANGED <<pc, gpc, out, name, localName, ret, a, b, p, number, r, wg, pos, neg,
                   i, swapIn, p0, lastName, retFor>>

FnInit == pc \in {"L81", "h_idle"} /\ Fresh

FnNext == Next \/ HSwap \/ HNewPerson \/ HSetName \/ HGreet \/ HCall

FnSpec == FnInit /\ [][FnNext]_vars

----------------------------------------------------------------------------
(* Properties. *)

\* main's positions once wg.Wait() has returned
PostWait ==
    {"L116", "L117_init", "L117_cond", "L118_pos", "L118_neg", "L73", "L74",
     "L118_print", "L117_post", "done"}

Printed(line) == \E k \in 1..Len(out) : out[k] = line

Tri(n) == (n * (n + 1)) \div 2

\* C1: wg.Wait() never returns before the goroutine's wg.Done() has run: main past
\* the wait implies the goroutine has printed "Inside goroutine", has exited and has
\* brought the counter to 0; and a main parked in Wait on a counter of 1 cannot
\* resume.
C1_WaitReturnsAfterDone ==
    /\ pc \in PostWait => gpc = "exited" /\ wg = 0 /\ Printed("Inside goroutine")
    /\ pc = "L113_parked" /\ wg = 1 => ~ENABLED WgWaitWake

\* main is parked in Wait on a counter of 1 while the goroutine has printed and not yet run Done
C1_Witness ==
    /\ pc = "L113_parked"
    /\ gpc = "L110_defer"
    /\ wg = 1
    /\ Printed("Inside goroutine")

MainCanPrint == ENABLED (PrintRet \/ PrintSwap \/ PrintNumber \/ PrintLoop)
GoroutineCanPrint == ENABLED GoroutinePrintln

\* the console's lines; line 5 is the type-conversion output, which C9 is about
ExpectedOut ==
    <<"Hello, Go", "2 1", "Hello, Alice", "Hello, Bob", "<line 5>", "Inside goroutine",
      "0 0", "1 -2", "3 -6", "6 -12", "10 -20", "15 -30", "21 -42", "28 -56",
      "36 -72", "45 -90">>

\* C4: main and the goroutine are never both able to print: while the goroutine is
\* live main is at wg.Wait(); so the console holds the same lines in every
\* interleaving, "Inside goroutine" sixth, after the type-conversion output and
\* before the first line of the closure loop.
C4_NoContentionOnConsole ==
    /\ ~(MainCanPrint /\ GoroutineCanPrint)
    /\ gpc \in {"L111", "L110_defer"} => pc \in {"L113", "L113_parked"}
    /\ Len(out) <= Len(ExpectedOut)
    /\ \A k \in 1..Len(out) : k # 5 => out[k] = ExpectedOut[k]

\* the goroutine is about to print while main is parked in Wait, five lines on the console
C4_Witness ==
    /\ gpc = "L111"
    /\ GoroutineCanPrint
    /\ pc = "L113_parked"
    /\ Len(out) = 5

\* C5: the counter is 0 or 1 in every state: 1 from wg.Add(1), which precedes the
\* launch, until the goroutine's deferred wg.Done(), and 0 once the goroutine has
\* completed.
C5_CounterZeroOrOne ==
    /\ wg \in {0, 1}
    /\ pc = "L109" => wg = 1
    /\ gpc \in {"L111", "L110_defer"} => wg = 1
    /\ gpc = "exited" => wg = 0

\* the goroutine has completed, and decremented the counter, before main calls Wait
C5_Witness ==
    /\ gpc = "exited"
    /\ wg = 0
    /\ pc = "L113"

\* main has returned after ten iterations with i = 0..9, the goroutine completed before
Terminated ==
    /\ pc = "done"
    /\ gpc = "exited"
    /\ i = LoopCount
    /\ calls[pos] = [k \in 1..LoopCount |-> k - 1]
    /\ Len(out) = 6 + LoopCount

\* C6: with main and the goroutine scheduled fairly main terminates: Wait returns,
\* the loop runs exactly 10 iterations with i = 0..9, and at main's end the
\* goroutine has completed.
C6_MainTerminates == <>Terminated

C6_Witness == Terminated /\ wg = 0

\* C7: pos and neg own separate sums: a call of one leaves the other's sum as it
\* was, iteration i prints (i(i+1)/2, -i(i+1)), and the last line is "45 -90".
C7_IndependentSums ==
    /\ pc \in PostWait \ {"L116"} => pos # neg
    /\ \A k \in 0..(Len(out) - 7) : out[7 + k] = Println2(Tri(k), -(k * (k + 1)))
    /\ pc = "L118_neg" =>
          /\ rpos = Tri(i)
          /\ heap[pos] = Tri(i)
          /\ heap[neg] = -((i - 1) * i)
    /\ pc = "L118_print" =>
          /\ rpos = Tri(i) /\ rneg = -2 * rpos
          /\ heap[pos] = Tri(i)
          /\ heap[neg] = -(i * (i + 1))
    /\ pc = "done" => out[Len(out)] = "45 -90" /\ heap[pos] = 45 /\ heap[neg] = -90

\* the last iteration's operands are evaluated: 45 and -90
C7_Witness ==
    /\ pc = "L118_print"
    /\ i = LoopCount - 1
    /\ rpos = 45
    /\ rneg = -90

\* C9: number holds 42 and int(number) prints 42 as the fifth line.
C9_NumberIs42 ==
    /\ pc \notin {"L81", "L84", "L84_print", "L87", "L88", "L91", "L92", "L92_print",
                  "L95", "L96", "L96_print", "L99"}
          => number = [valid |-> TRUE, v |-> 42]
    /\ Len(out) >= 5 => out[5] = "42"

----------------------------------------------------------------------------
(* Properties of the functions, over main's run and the function-level runs. *)

Front(s) == SubSeq(s, 1, Len(s) - 1)
Last(s) == s[Len(s)]

\* the sum of s as the pair (w, k) standing for w + k * 2^32, w within int
RECURSIVE ExactSum(_)
ExactSum(s) ==
    IF s = <<>> THEN [w |-> 0, k |-> 0]
    ELSE LET t == ExactSum(Front(s))
             x == Last(s)
         IN  IF x >= 0 /\ t.w > MaxInt - x
             THEN [w |-> ((t.w - MaxInt) - 1) + ((x - MaxInt) - 1), k |-> t.k + 1]
             ELSE IF x < 0 /\ t.w < MinInt - x
             THEN [w |-> (t.w - MinInt) + (x - MinInt), k |-> t.k - 1]
             ELSE [w |-> t.w + x, k |-> t.k]

\* every partial sum of s lies within int
AllFit(s) == \A n \in 0..Len(s) : ExactSum(SubSeq(s, 1, n)).k = 0

RECURSIVE PlainSum(_)
PlainSum(s) == IF s = <<>> THEN 0 ELSE PlainSum(Front(s)) + Last(s)

\* s is 0, 1, ..., Len(s) - 1
Counting(s) == \A n \in 1..Len(s) : s[n] = n - 1

\* the closure named dst has just returned
Returned(dst) ==
    /\ frame.dst = dst
    /\ pc \in {"h_adder", IF dst = "pos" THEN "L118_neg" ELSE "L118_print"}

\* C2 as stated: the k-th call returns x1+...+xk, for every sequence of arguments.
C2_ReturnsExactSum ==
    /\ \A c \in 1..Len(heap) :
          /\ ExactSum(calls[c]).k = 0
          /\ heap[c] = ExactSum(calls[c]).w
    /\ Returned("pos") => rpos = ExactSum(calls[pos]).w
    /\ Returned("neg") => rneg = ExactSum(calls[neg]).w

\* C2, amended: a closure starts with sum 0 and its k-th call returns x1+...+xk
\* wrapped into the range of int, which is x1+...+xk itself whenever the sum lies
\* within int; successive calls with 0,1,2,... return 0,1,3,..., i(i+1)/2.
C2_ReturnsWrappedSum ==
    /\ \A c \in 1..Len(heap) :
          /\ calls[c] = <<>> => heap[c] = 0
          /\ heap[c] = ExactSum(calls[c]).w
          /\ AllFit(calls[c]) => heap[c] = PlainSum(calls[c])
          /\ Counting(calls[c]) /\ calls[c] # <<>> => heap[c] = Tri(Len(calls[c]) - 1)
    /\ Returned("pos") => rpos = ExactSum(calls[pos]).w
    /\ Returned("neg") => rneg = ExactSum(calls[neg]).w

\* four calls with 0, 1, 2, 3 on one closure: the last returns 6
C2_Witness ==
    /\ pc = "h_adder"
    /\ calls[pos] = <<0, 1, 2, 3>>
    /\ Returned("pos")
    /\ rpos = 6

\* C3: swap(x, y) returns (y, x) for all x and y; swap(1, 2) returns (2, 1) and
\* main's second line is "2 1".
C3_SwapExchanges ==
    /\ swapIn # <<>> => a = swapIn[2] /\ b = swapIn[1]
    /\ pc = "L88" => a = 2 /\ b = 1
    /\ Len(out) >= 2 => out[2] = "2 1"

\* swap called on two different values, one of them the least int
C3_Witness ==
    /\ pc = "h_swapped"
    /\ swapIn = <<MinInt, 3>>
    /\ a = 3
    /\ b = MinInt

\* C8: setName changes the Name of the Person it is called on and nothing else, and
\* greet changes nothing: p.greet() returns "Hello, " and the argument of the last
\* setName ("Hello, Alice" before p.setName("Bob") in main, "Hello, Bob" after).
C8_SetNameChangesOnlyName ==
    /\ p0 # ZeroPerson =>
          /\ p.Name = lastName
          /\ p.Age = p0.Age
          /\ p.Address = p0.Address
    /\ retFor # <<>> => ret = "Hello, " \o retFor[1]
    /\ Len(out) >= 3 => out[3] = "Hello, Alice"
    /\ Len(out) >= 4 => out[4] = "Hello, Bob"

\* a Person built as Alice, renamed Bob, then greeted
C8_Witness ==
    /\ pc = "h_person"
    /\ p0.Name = "Alice"
    /\ p0.Age = 30
    /\ lastName = "Bob"
    /\ retFor = <<"Bob">>
    /\ ret = "Hello, Bob"
    /\ p.Age = 30

====
